---- MODULE Spec2Model ----
(***************************************************************************)
(* FogoBot (src/bot.py): the wrap / unwrap command loop, the JSON-RPC      *)
(* calls it issues, the 4-instruction transactions it builds, and the      *)
(* ledger that answers the queries and executes the transactions.          *)
(*                                                                         *)
(* Amounts are integers in the smallest unit.  An amount typed at the      *)
(* prompt is a decimal number of coins; it is modelled as an integer       *)
(* number of 1/Sub-ths of the smallest unit, so that the truncation of     *)
(* int(amount_fogo * 10**9) is visible.  Keypair() draws a random key;     *)
(* the model takes two draws never to collide and numbers the draws.       *)
(***************************************************************************)
EXTENDS Integers, Sequences, FiniteSets, TLC

\* ---------------------------------------------------------------- bounds
\* Largest native balance of the owner in an initial ledger state.
MaxNative == 4
\* Largest balance of one wrapped-token account set up initially or by
\* another actor.
MaxTok == 1
\* Largest number of wrapped-token accounts the owner holds.
MaxAccts == 2
\* Largest amount typed at the prompt, in 1/Sub-ths of the smallest unit.
MaxEntered == 4
\* Number of Keypair() draws (transactions built) in one run of the program.
MaxKeys == 2
\* Number of ledger changes made by other actors in one run.
MaxOther == 1
\* Ledger parameters: the rent-exemption minimum of a 165-byte account as
\* the node reports it, and the fee of a transaction with two signatures.
RentMin == 1
Fee == 1
\* Sub-units per smallest unit in a typed amount.
Sub == 2

\* ---------------------------------------------------------- program constants
\* size = 165 / space=165
TokenAccountSize == 165
\* decimals=9
Decimals == 9

None == -1

Owner == [k |-> "owner", n |-> 0]
Tok(i) == [k |-> "tok", n |-> i]
Tmp(i) == [k |-> "tmp", n |-> i]
TOKEN_PROGRAM_ID == "TokenProgram"
WRAPPED_SOL_MINT == "WrappedNativeMint"

VARIABLES
  pc,          \* position of main / wrap_fogo / unwrap_fogo / check_balances
  choice,      \* the menu choice last read
  entered,     \* the amount last read at the prompt (1/Sub-ths of a unit)
  loc,         \* the locals of the running wrap_fogo / unwrap_fogo call
  rpcLog,      \* the RPC methods requested since the last menu choice
  keygen,      \* number of Keypair() draws so far
  usedKeys,    \* ephemeral addresses of the transactions built so far
  nativeBal,   \* ledger: the owner's native balance
  toks,        \* ledger: balances of the owner's wrapped-token accounts,
               \*         in the order the node lists them
  temps,       \* ledger: other token accounts of the owner that exist
               \*         (address |-> [lamports, amount, init])
  landed,      \* ledger: whether the transaction last submitted was executed
  rt,          \* history: progress of a wrap-then-unwrap round trip
  others       \* number of ledger changes other actors have made

vars == <<pc, choice, entered, loc, rpcLog, keygen, usedKeys,
          nativeBal, toks, temps, landed, rt, others>>

\* ------------------------------------------------------------ pure helpers
RECURSIVE SumSeq(_)
SumSeq(s) ==
  IF s = <<>> THEN 0 ELSE Head(s) + SumSeq(Tail(s))

\* get_spl_fogo_balance: total = 0; for ta in accounts: total += amount
get_spl_fogo_balance_first(accounts) ==
  IF accounts = <<>> THEN 0 ELSE Head(accounts)
get_spl_fogo_balance(accounts) ==
  SumSeq(accounts)

\* resp.get("result", {}).get("value", []) of getTokenAccountsByOwner:
\* the listed balances, or the empty list when the response has no result.
TokenAccountsValue(r, ledgerToks) ==
  IF r = "result" THEN ledgerToks ELSE <<>>

\* int(amount_fogo * 10**9): truncation toward zero.
ToUnits(e) ==
  e \div Sub

\* amount <= 0 in main
NonPositiveStrict(e) ==
  e < 0
NonPositive(e) ==
  e <= 0

\* fogo_balance < amount / spl_fogo_balance < amount
InsufficientUnchecked(balance, amt) ==
  FALSE
InsufficientOffByOne(balance, amt) ==
  balance + 1 < amt
Insufficient(balance, amt) ==
  balance < amt

\* wrap: for ta in token_accounts: spl_fogo_account = pubkey; break
FirstAccountLast(token_accounts) ==
  IF token_accounts = <<>> THEN None ELSE Len(token_accounts)
FirstAccount(token_accounts) ==
  IF token_accounts = <<>> THEN None ELSE 1

\* unwrap: for ta in token_accounts: if ta_amount > 0: source_ata = pubkey; break
FirstFundedOrEmpty(token_accounts) ==
  IF token_accounts = <<>> THEN None ELSE 1
LastFunded(token_accounts) ==
  LET idx == {i \in 1..Len(token_accounts) : token_accounts[i] > 0}
  IN  IF idx = {} THEN None ELSE CHOOSE i \in idx : \A j \in idx : i >= j
FirstFunded(token_accounts) ==
  LET idx == {i \in 1..Len(token_accounts) : token_accounts[i] > 0}
  IN  IF idx = {} THEN None ELSE CHOOSE i \in idx : \A j \in idx : i <= j

\* Keypair(): the next draw of the key generator.
KeypairReused(gen) ==
  1
Keypair(gen) ==
  gen + 1

\* ------------------------------------------------------ transaction builder
NoKey == [k |-> "none", n |-> 0]
NoTx == [instructions |-> <<>>, recent_blockhash |-> "none",
         fee_payer |-> NoKey, signers |-> {}]

create_account(from, new, lamports) ==
  [type |-> "CreateAccount", from_pubkey |-> from, new_account_pubkey |-> new,
   lamports |-> lamports, space |-> TokenAccountSize,
   program_id |-> TOKEN_PROGRAM_ID]

initialize_account(account, owner) ==
  [type |-> "InitializeAccount", account |-> account,
   mint |-> WRAPPED_SOL_MINT, owner |-> owner, program_id |-> TOKEN_PROGRAM_ID]

transfer_checked(source, dest, owner, amount) ==
  [type |-> "TransferChecked", program_id |-> TOKEN_PROGRAM_ID,
   source |-> source, mint |-> WRAPPED_SOL_MINT, dest |-> dest,
   owner |-> owner, amount |-> amount, decimals |-> Decimals]

close_account(account, dest, owner) ==
  [type |-> "CloseAccount", program_id |-> TOKEN_PROGRAM_ID,
   account |-> account, dest |-> dest, owner |-> owner]

\* wrap_fogo: the four instructions and tx.add(...)
WrapInstructionsRentOnly(temp, dest, amount, rent) ==
  << create_account(Owner, temp, rent),
     initialize_account(temp, Owner),
     transfer_checked(temp, dest, Owner, amount),
     close_account(temp, Owner, Owner) >>
WrapInstructionsNoClose(temp, dest, amount, rent) ==
  << create_account(Owner, temp, rent + amount),
     initialize_account(temp, Owner),
     transfer_checked(temp, dest, Owner, amount) >>
WrapInstructionsCloseToDest(temp, dest, amount, rent) ==
  << create_account(Owner, temp, rent + amount),
     initialize_account(temp, Owner),
     transfer_checked(temp, dest, Owner, amount),
     close_account(temp, dest, Owner) >>
WrapInstructions(temp, dest, amount, rent) ==
  << create_account(Owner, temp, rent + amount),
     initialize_account(temp, Owner),
     transfer_checked(temp, dest, Owner, amount),
     close_account(temp, Owner, Owner) >>

\* unwrap_fogo: the four instructions and tx.add(...)
UnwrapInstructionsSwapped(temp, source, amount, rent) ==
  << create_account(Owner, temp, rent),
     initialize_account(temp, Owner),
     transfer_checked(temp, source, Owner, amount),
     close_account(temp, Owner, Owner) >>
UnwrapInstructionsNoClose(temp, source, amount, rent) ==
  << create_account(Owner, temp, rent),
     initialize_account(temp, Owner),
     transfer_checked(source, temp, Owner, amount) >>
UnwrapInstructions(temp, source, amount, rent) ==
  << create_account(Owner, temp, rent),
     initialize_account(temp, Owner),
     transfer_checked(source, temp, Owner, amount),
     close_account(temp, Owner, Owner) >>

\* tx.recent_blockhash = blockhash; tx.fee_payer = owner;
\* tx.sign(wallet, temp_account_kp)
SignOwnerOnly(tx, blockhash, temp) ==
  [tx EXCEPT !.recent_blockhash = blockhash, !.fee_payer = Owner,
             !.signers = {Owner}]
Sign(tx, blockhash, temp) ==
  [tx EXCEPT !.recent_blockhash = blockhash, !.fee_payer = Owner,
             !.signers = {Owner, temp}]

\* ------------------------------------------------------------------ ledger
\* The node's execution of a transaction, instruction by instruction, on
\* L = [nat, toks, temps, ok].  A token account of the wrapped native mint
\* holds amount = lamports - rent minimum; closing it pays all its lamports
\* to the destination.
Failed(L) == [L EXCEPT !.ok = FALSE]

HasToken(L, a) ==
  \/ a.k = "tok" /\ a.n \in 1..Len(L.toks)
  \/ a.k = "tmp" /\ a.n \in DOMAIN L.temps /\ L.temps[a.n].init

AmountOf(L, a) ==
  IF a.k = "tok" THEN L.toks[a.n] ELSE L.temps[a.n].amount

Credit(L, a, d) ==
  IF a.k = "tok"
  THEN [L EXCEPT !.toks[a.n] = @ + d]
  ELSE [L EXCEPT !.temps[a.n].amount = @ + d, !.temps[a.n].lamports = @ + d]

ExecCreate(L, ix) ==
  IF /\ ix.from_pubkey = Owner
     /\ ix.new_account_pubkey.k = "tmp"
     /\ ix.new_account_pubkey.n \notin DOMAIN L.temps
     /\ L.nat >= ix.lamports
  THEN [L EXCEPT
          !.nat = @ - ix.lamports,
          !.temps = [x \in DOMAIN L.temps \cup {ix.new_account_pubkey.n} |->
                       IF x = ix.new_account_pubkey.n
                       THEN [lamports |-> ix.lamports, amount |-> 0, init |-> FALSE]
                       ELSE L.temps[x]]]
  ELSE Failed(L)

ExecInit(L, ix) ==
  IF /\ ix.account.k = "tmp"
     /\ ix.account.n \in DOMAIN L.temps
     /\ ~L.temps[ix.account.n].init
     /\ L.temps[ix.account.n].lamports >= RentMin
  THEN [L EXCEPT !.temps[ix.account.n].init = TRUE,
                 !.temps[ix.account.n].amount =
                     L.temps[ix.account.n].lamports - RentMin]
  ELSE Failed(L)

ExecTransfer(L, ix) ==
  IF /\ HasToken(L, ix.source)
     /\ HasToken(L, ix.dest)
     /\ ix.owner = Owner
     /\ ix.amount >= 0
     /\ AmountOf(L, ix.source) >= ix.amount
  THEN Credit(Credit(L, ix.source, 0 - ix.amount), ix.dest, ix.amount)
  ELSE Failed(L)

ExecClose(L, ix) ==
  IF /\ ix.account.k = "tmp"
     /\ ix.account.n \in DOMAIN L.temps
     /\ L.temps[ix.account.n].init
     /\ ix.owner = Owner
  THEN [L EXCEPT
          !.nat = IF ix.dest = Owner THEN @ + L.temps[ix.account.n].lamports ELSE @,
          !.temps = [x \in DOMAIN L.temps \ {ix.account.n} |-> L.temps[x]]]
  ELSE Failed(L)

ExecIx(L, ix) ==
  IF ~L.ok THEN L
  ELSE CASE ix.type = "CreateAccount" -> ExecCreate(L, ix)
         [] ix.type = "InitializeAccount" -> ExecInit(L, ix)
         [] ix.type = "TransferChecked" -> ExecTransfer(L, ix)
         [] ix.type = "CloseAccount" -> ExecClose(L, ix)

RECURSIVE ExecAll(_, _)
ExecAll(L, ixs) ==
  IF ixs = <<>> THEN L ELSE ExecAll(ExecIx(L, Head(ixs)), Tail(ixs))

\* The accounts a transaction must be signed by: the fee payer, the funder
\* and the new account of every CreateAccount, the owner of every token
\* instruction.
RequiredSigners(tx) ==
  {tx.fee_payer}
  \cup {tx.instructions[i].new_account_pubkey :
          i \in {j \in 1..Len(tx.instructions) :
                   tx.instructions[j].type = "CreateAccount"}}
  \cup {Owner}

\* The ledger after the transaction, the fee charged first; ok = FALSE when
\* the transaction is rejected as a whole.
Execute(tx) ==
  LET L0 == [nat |-> nativeBal - Fee, toks |-> toks, temps |-> temps,
             ok |-> /\ tx.recent_blockhash # "none"
                    /\ tx.fee_payer = Owner
                    /\ RequiredSigners(tx) \subseteq tx.signers
                    /\ nativeBal >= Fee]
  IN  ExecAll(L0, tx.instructions)

\* ----------------------------------------------------------------- program
\* The locals of the running call; resp is the kind of the response last
\* received from rpc_request ("result", or "error" for a response without
\* a result).
NoLocals ==
  [fogo_balance |-> None, spl_fogo_balance |-> None, amount |-> None,
   accounts |-> <<>>, token_accounts |-> <<>>,
   spl_fogo_account |-> None, source_ata |-> None,
   temp_account_pub |-> NoKey, rent_lamports |-> None, blockhash |-> "none",
   tx |-> NoTx, resp |-> "none",
   new_fogo_balance |-> None, new_spl_fogo_balance |-> None,
   fogo_change |-> 0, spl_fogo_change |-> 0, outcome |-> "none"]

NoRoundTrip == [stage |-> 0, A |-> 0, nat0 |-> 0, spl0 |-> 0]

Amounts == 0..MaxTok
EnteredValues == (0 - 1)..MaxEntered

RECURSIVE SeqsUpTo(_, _)
SeqsUpTo(S, n) ==
  IF n = 0 THEN {<<>>}
  ELSE SeqsUpTo(S, n - 1)
       \cup {Append(s, x) : s \in {t \in SeqsUpTo(S, n - 1) : Len(t) = n - 1}, x \in S}

Init ==
  /\ pc = "menu"
  /\ choice = "none"
  /\ entered = 0
  /\ loc = NoLocals
  /\ rpcLog = <<>>
  /\ keygen = 0
  /\ usedKeys = {}
  /\ nativeBal \in 0..MaxNative
  /\ toks \in SeqsUpTo(Amounts, MaxAccts)
  /\ temps = <<>>
  /\ landed = FALSE
  /\ rt = NoRoundTrip
  /\ others = 0

\* rpc_request: one POST per call.
RequestWithRetry(method) == rpcLog' = Append(Append(rpcLog, method), method)
Request(method) == rpcLog' = Append(rpcLog, method)

\* The positions at which the program waits for the answer to an RPC
\* request, and the method requested there.
MethodAt(p) ==
  CASE p \in {"w_getBalance", "w_newBalance", "u_getBalance", "u_newBalance",
              "c_getBalance"} -> "getBalance"
    [] p \in {"w_resolve", "w_getSpl", "w_newSpl", "u_getSpl", "u_resolve",
              "u_newSpl", "c_getSpl"} -> "getTokenAccountsByOwner"
    [] p \in {"w_rent", "u_rent"} -> "getMinimumBalanceForRentExemption"
    [] p \in {"w_blockhash", "u_blockhash"} -> "getLatestBlockhash"
    [] p \in {"w_send", "u_send"} -> "sendTransaction"
    [] OTHER -> "none"

RpcPcs ==
  {"w_getBalance", "w_resolve", "w_getSpl", "w_rent", "w_blockhash", "w_send",
   "w_newBalance", "w_newSpl",
   "u_getBalance", "u_getSpl", "u_blockhash", "u_resolve", "u_rent", "u_send",
   "u_newBalance", "u_newSpl",
   "c_getBalance", "c_getSpl"}

progUnchanged == <<choice, entered, keygen, usedKeys>>
quiet == <<nativeBal, toks, temps, landed, rt, others>>

\* ------------------------------------------------------------------- main
\* choice == "1": amount = float(input(...)); if amount <= 0: continue;
\* wrap_fogo(private_key, amount)
MenuWrap ==
  /\ pc = "menu"
  /\ keygen < MaxKeys
  /\ \E e \in EnteredValues :
       /\ choice' = "1"
       /\ entered' = e
       /\ rpcLog' = <<>>
       /\ IF NonPositive(e)
          THEN /\ pc' = "menu"
               /\ loc' = [NoLocals EXCEPT !.outcome = "invalid_input"]
          ELSE /\ pc' = "w_getBalance"
               /\ loc' = NoLocals
  /\ UNCHANGED <<keygen, usedKeys>>
  /\ UNCHANGED quiet

\* choice == "2": the same, then unwrap_fogo(private_key, amount)
MenuUnwrap ==
  /\ pc = "menu"
  /\ keygen < MaxKeys
  /\ \E e \in EnteredValues :
       /\ choice' = "2"
       /\ entered' = e
       /\ rpcLog' = <<>>
       /\ IF NonPositive(e)
          THEN /\ pc' = "menu"
               /\ loc' = [NoLocals EXCEPT !.outcome = "invalid_input"]
          ELSE /\ pc' = "u_getBalance"
               /\ loc' = NoLocals
  /\ UNCHANGED <<keygen, usedKeys>>
  /\ UNCHANGED quiet

\* The process has ended: none of its variables is left, only what it
\* printed last.
Ended(outcome) ==
  /\ pc' = "exited"
  /\ choice' = "none"
  /\ entered' = 0
  /\ rpcLog' = <<>>
  /\ loc' = [NoLocals EXCEPT !.outcome = outcome]
  /\ landed' = FALSE
  /\ UNCHANGED <<keygen, usedKeys, nativeBal, toks, temps, rt, others>>

\* float(input(...)) raises ValueError: caught outside the loop, main ends.
MenuBadNumber ==
  /\ pc = "menu"
  /\ Ended("value_error")

\* choice == "3": check_balances(private_key)
MenuCheck ==
  /\ pc = "menu"
  /\ choice' = "3"
  /\ pc' = "c_getBalance"
  /\ rpcLog' = <<>>
  /\ loc' = NoLocals
  /\ UNCHANGED <<entered, keygen, usedKeys>>
  /\ UNCHANGED quiet

\* choice == "4": break
MenuExit ==
  /\ pc = "menu"
  /\ Ended("goodbye")

\* any other choice: print_error, next iteration
MenuInvalid ==
  /\ pc = "menu"
  /\ choice' = "other"
  /\ pc' = "menu"
  /\ rpcLog' = <<>>
  /\ loc' = [NoLocals EXCEPT !.outcome = "invalid_choice"]
  /\ UNCHANGED <<entered, keygen, usedKeys>>
  /\ UNCHANGED quiet

\* if choice in ["1", "2", "3"]: input("Press Enter to continue..."), then the
\* next iteration: the locals of the call that returned are gone, and
\* choice and amount are written before they are read again.
PressEnter ==
  /\ pc = "pause"
  /\ pc' = "menu"
  /\ choice' = "none"
  /\ entered' = 0
  /\ loc' = NoLocals
  /\ rpcLog' = <<>>
  /\ landed' = FALSE
  /\ UNCHANGED <<keygen, usedKeys, nativeBal, toks, temps, rt, others>>

\* requests.post raises, or raise_for_status() raises on a non-2xx answer:
\* the exception leaves wrap_fogo / unwrap_fogo / check_balances and is
\* caught by main's `except Exception`, after which main ends (the locals of
\* the call are gone).
RpcTransportError ==
  /\ pc \in RpcPcs
  /\ Ended("transport_error")

\* A response with an `error` field and no `result` to a method whose answer
\* is read as resp["result"]: KeyError, caught by main's `except Exception`.
RpcErrorResponse ==
  /\ pc \in RpcPcs
  /\ MethodAt(pc) \in {"getBalance", "getMinimumBalanceForRentExemption",
                       "getLatestBlockhash"}
  /\ Ended("key_error")

\* ------------------------------------------------- sendTransaction (ledger)
\* The node's answer to sendTransaction and what becomes of the transaction:
\* executed atomically (result), accepted by the preflight simulation but
\* never executed (result), or refused (error, or no result at all).
Submit(next, executedRt) ==
  LET L == Execute(loc.tx)
  IN  /\ Request("sendTransaction")
      /\ \/ /\ L.ok
            /\ nativeBal' = L.nat
            /\ toks' = L.toks
            /\ temps' = L.temps
            /\ landed' = TRUE
            /\ rt' = executedRt
            /\ loc' = [loc EXCEPT !.resp = "result"]
            /\ pc' = next
         \/ /\ L.ok
            /\ landed' = FALSE
            /\ loc' = [loc EXCEPT !.resp = "result"]
            /\ pc' = next
            /\ UNCHANGED <<nativeBal, toks, temps, rt>>
         \/ /\ landed' = FALSE
            /\ loc' = [loc EXCEPT !.resp = "error", !.outcome = "tx_failed"]
            /\ pc' = "pause"
            /\ UNCHANGED <<nativeBal, toks, temps, rt>>
      /\ UNCHANGED others
      /\ UNCHANGED progUnchanged

\* ---------------------------------------------------------------- wrap_fogo
\* fogo_balance = get_fogo_balance(owner); amount = int(amount_fogo * 10**9);
\* if fogo_balance < amount: return None
WrapGetBalance ==
  /\ pc = "w_getBalance"
  /\ Request("getBalance")
  /\ LET amt == ToUnits(entered)
     IN  IF Insufficient(nativeBal, amt)
         THEN /\ loc' = [loc EXCEPT !.resp = "result",
                                    !.fogo_balance = nativeBal, !.amount = amt,
                                    !.outcome = "insufficient"]
              /\ pc' = "pause"
         ELSE /\ loc' = [loc EXCEPT !.resp = "result",
                                    !.fogo_balance = nativeBal, !.amount = amt]
              /\ pc' = "w_resolve"
  /\ UNCHANGED progUnchanged
  /\ UNCHANGED quiet

\* token_accounts = resp.get("result", {}).get("value", []); the first
\* account is the destination; if not spl_fogo_account: return None
WrapResolve ==
  /\ pc = "w_resolve"
  /\ Request("getTokenAccountsByOwner")
  /\ \E r \in {"result", "error"} :
       LET value == TokenAccountsValue(r, toks)
           dest == FirstAccount(value)
       IN  IF dest = None
           THEN /\ loc' = [loc EXCEPT !.resp = r,
                                      !.token_accounts = value,
                                      !.outcome = "missing_account"]
                /\ pc' = "pause"
           ELSE /\ loc' = [loc EXCEPT !.resp = r,
                                      !.token_accounts = value,
                                      !.spl_fogo_account = dest]
                /\ pc' = "w_getSpl"
  /\ UNCHANGED progUnchanged
  /\ UNCHANGED quiet

\* spl_fogo_balance = get_spl_fogo_balance(owner); temp_account_kp = Keypair()
WrapGetSpl ==
  /\ pc = "w_getSpl"
  /\ Request("getTokenAccountsByOwner")
  /\ \E r \in {"result", "error"} :
       LET value == TokenAccountsValue(r, toks)
       IN  loc' = [loc EXCEPT !.resp = r,
                              !.accounts = value,
                              !.spl_fogo_balance = get_spl_fogo_balance(value),
                              !.temp_account_pub = Tmp(Keypair(keygen))]
  /\ keygen' = keygen + 1
  /\ pc' = "w_rent"
  /\ UNCHANGED <<choice, entered, usedKeys>>
  /\ UNCHANGED quiet

\* rent_lamports = get_min_rent_exempt_for_token_account(); the four
\* instructions; tx = Transaction(); tx.add(...)
WrapRent ==
  /\ pc = "w_rent"
  /\ Request("getMinimumBalanceForRentExemption")
  /\ loc' = [loc EXCEPT !.resp = "result",
                        !.rent_lamports = RentMin,
               !.tx = [NoTx EXCEPT !.instructions =
                         WrapInstructions(loc.temp_account_pub,
                                          Tok(loc.spl_fogo_account),
                                          loc.amount, RentMin)]]
  /\ usedKeys' = usedKeys \cup {loc.temp_account_pub}
  /\ pc' = "w_blockhash"
  /\ UNCHANGED <<choice, entered, keygen>>
  /\ UNCHANGED quiet

\* blockhash = get_latest_blockhash(); tx.recent_blockhash, tx.fee_payer,
\* tx.sign(wallet, temp_account_kp); serialize
WrapBlockhash ==
  /\ pc = "w_blockhash"
  /\ Request("getLatestBlockhash")
  /\ loc' = [loc EXCEPT !.resp = "result",
                        !.blockhash = "bh",
                        !.tx = Sign(loc.tx, "bh", loc.temp_account_pub)]
  /\ pc' = "w_send"
  /\ UNCHANGED progUnchanged
  /\ UNCHANGED quiet

\* resp = send_raw_transaction(tx_b64); if "result" in resp: ... else: failed
WrapSend ==
  /\ pc = "w_send"
  /\ Submit("w_newBalance",
            [stage |-> 1, A |-> loc.amount, nat0 |-> nativeBal,
             spl0 |-> SumSeq(toks)])

\* time.sleep(3); new_fogo_balance = get_fogo_balance(owner)
WrapNewBalance ==
  /\ pc = "w_newBalance"
  /\ Request("getBalance")
  /\ loc' = [loc EXCEPT !.resp = "result",
                        !.new_fogo_balance = nativeBal]
  /\ pc' = "w_newSpl"
  /\ UNCHANGED progUnchanged
  /\ UNCHANGED quiet

\* new_spl_fogo_balance = get_spl_fogo_balance(owner); the two changes;
\* return str(spl_fogo_account)
WrapNewSpl ==
  /\ pc = "w_newSpl"
  /\ Request("getTokenAccountsByOwner")
  /\ \E r \in {"result", "error"} :
       LET value == TokenAccountsValue(r, toks)
           total == get_spl_fogo_balance(value)
       IN  loc' = [loc EXCEPT !.resp = r,
                              !.accounts = value,
                     !.new_spl_fogo_balance = total,
                     !.fogo_change = loc.new_fogo_balance - loc.fogo_balance,
                     !.spl_fogo_change = total - loc.spl_fogo_balance,
                     !.outcome = "success"]
  /\ pc' = "pause"
  /\ UNCHANGED progUnchanged
  /\ UNCHANGED quiet

\* -------------------------------------------------------------- unwrap_fogo
\* fogo_balance = get_fogo_balance(owner)
UnwrapGetBalance ==
  /\ pc = "u_getBalance"
  /\ Request("getBalance")
  /\ loc' = [loc EXCEPT !.resp = "result",
                        !.fogo_balance = nativeBal]
  /\ pc' = "u_getSpl"
  /\ UNCHANGED progUnchanged
  /\ UNCHANGED quiet

\* spl_fogo_balance = get_spl_fogo_balance(owner);
\* amount = int(amount_spl_fogo * 10**9);
\* if spl_fogo_balance < amount: return
UnwrapGetSpl ==
  /\ pc = "u_getSpl"
  /\ Request("getTokenAccountsByOwner")
  /\ \E r \in {"result", "error"} :
       LET value == TokenAccountsValue(r, toks)
           total == get_spl_fogo_balance(value)
           amt == ToUnits(entered)
       IN  IF Insufficient(total, amt)
           THEN /\ loc' = [loc EXCEPT !.resp = r,
                                      !.accounts = value,
                                      !.spl_fogo_balance = total,
                                      !.amount = amt,
                                      !.outcome = "insufficient"]
                /\ pc' = "pause"
           ELSE /\ loc' = [loc EXCEPT !.resp = r,
                                      !.accounts = value,
                                      !.spl_fogo_balance = total,
                                      !.amount = amt]
                /\ pc' = "u_blockhash"
  /\ UNCHANGED progUnchanged
  /\ UNCHANGED quiet

\* blockhash = get_latest_blockhash()
UnwrapBlockhash ==
  /\ pc = "u_blockhash"
  /\ Request("getLatestBlockhash")
  /\ loc' = [loc EXCEPT !.resp = "result",
                        !.blockhash = "bh"]
  /\ pc' = "u_resolve"
  /\ UNCHANGED progUnchanged
  /\ UNCHANGED quiet

\* token_accounts = ...; the first account with ta_amount > 0 is the source;
\* if source_ata is None: return; temp_account_kp = Keypair()
UnwrapResolve ==
  /\ pc = "u_resolve"
  /\ Request("getTokenAccountsByOwner")
  /\ \E r \in {"result", "error"} :
       LET value == TokenAccountsValue(r, toks)
           source == FirstFunded(value)
       IN  IF source = None
           THEN /\ loc' = [loc EXCEPT !.resp = r,
                                      !.token_accounts = value,
                                      !.outcome = "missing_account"]
                /\ pc' = "pause"
                /\ UNCHANGED keygen
           ELSE /\ loc' = [loc EXCEPT !.resp = r,
                                      !.token_accounts = value,
                                      !.source_ata = source,
                                      !.temp_account_pub = Tmp(Keypair(keygen))]
                /\ pc' = "u_rent"
                /\ keygen' = keygen + 1
  /\ UNCHANGED <<choice, entered, usedKeys>>
  /\ UNCHANGED quiet

\* rent_lamports = get_min_rent_exempt_for_token_account(); the four
\* instructions; tx.add(...); recent_blockhash, fee_payer, sign; serialize
UnwrapRent ==
  /\ pc = "u_rent"
  /\ Request("getMinimumBalanceForRentExemption")
  /\ loc' = [loc EXCEPT !.resp = "result",
                        !.rent_lamports = RentMin,
               !.tx = Sign([NoTx EXCEPT !.instructions =
                              UnwrapInstructions(loc.temp_account_pub,
                                                 Tok(loc.source_ata),
                                                 loc.amount, RentMin)],
                           loc.blockhash, loc.temp_account_pub)]
  /\ usedKeys' = usedKeys \cup {loc.temp_account_pub}
  /\ pc' = "u_send"
  /\ UNCHANGED <<choice, entered, keygen>>
  /\ UNCHANGED quiet

\* resp = send_raw_transaction(tx_b64); if "result" in resp: ... else: failed
UnwrapSend ==
  /\ pc = "u_send"
  /\ Submit("u_newBalance",
            IF rt.stage = 1 /\ rt.A = loc.amount
            THEN [rt EXCEPT !.stage = 2]
            ELSE NoRoundTrip)

\* time.sleep(3); new_fogo_balance = get_fogo_balance(owner)
UnwrapNewBalance ==
  /\ pc = "u_newBalance"
  /\ Request("getBalance")
  /\ loc' = [loc EXCEPT !.resp = "result",
                        !.new_fogo_balance = nativeBal]
  /\ pc' = "u_newSpl"
  /\ UNCHANGED progUnchanged
  /\ UNCHANGED quiet

\* new_spl_fogo_balance = get_spl_fogo_balance(owner); the two changes
UnwrapNewSpl ==
  /\ pc = "u_newSpl"
  /\ Request("getTokenAccountsByOwner")
  /\ \E r \in {"result", "error"} :
       LET value == TokenAccountsValue(r, toks)
           total == get_spl_fogo_balance(value)
       IN  loc' = [loc EXCEPT !.resp = r,
                              !.accounts = value,
                     !.new_spl_fogo_balance = total,
                     !.fogo_change = loc.new_fogo_balance - loc.fogo_balance,
                     !.spl_fogo_change = total - loc.spl_fogo_balance,
                     !.outcome = "success"]
  /\ pc' = "pause"
  /\ UNCHANGED progUnchanged
  /\ UNCHANGED quiet

\* ----------------------------------------------------------- check_balances
CheckGetBalance ==
  /\ pc = "c_getBalance"
  /\ Request("getBalance")
  /\ loc' = [loc EXCEPT !.resp = "result",
                        !.fogo_balance = nativeBal]
  /\ pc' = "c_getSpl"
  /\ UNCHANGED progUnchanged
  /\ UNCHANGED quiet

CheckGetSpl ==
  /\ pc = "c_getSpl"
  /\ Request("getTokenAccountsByOwner")
  /\ \E r \in {"result", "error"} :
       LET value == TokenAccountsValue(r, toks)
       IN  loc' = [loc EXCEPT !.resp = r,
                              !.accounts = value,
                              !.spl_fogo_balance = get_spl_fogo_balance(value),
                              !.outcome = "shown"]
  /\ pc' = "pause"
  /\ UNCHANGED progUnchanged
  /\ UNCHANGED quiet

\* ------------------------------------------------------------- other actors
\* Another actor changes the owner's native balance, the balance of one of
\* the owner's wrapped-token accounts, or opens a further wrapped-token
\* account for the owner.  Nothing in the program locks the ledger.
OtherActor ==
  /\ pc \in RpcPcs
  /\ others < MaxOther
  /\ others' = others + 1
  /\ rt' = NoRoundTrip
  /\ \/ /\ nativeBal' \in {nativeBal - 1, nativeBal + 1} \cap (0..MaxNative)
        /\ UNCHANGED toks
     \/ /\ \E i \in 1..Len(toks) : \E v \in Amounts \ {toks[i]} :
             toks' = [toks EXCEPT ![i] = v]
        /\ UNCHANGED nativeBal
     \/ /\ Len(toks) < MaxAccts
        /\ \E v \in Amounts : toks' = Append(toks, v)
        /\ UNCHANGED nativeBal
  /\ UNCHANGED <<pc, loc, rpcLog, temps, landed>>
  /\ UNCHANGED progUnchanged

Next ==
  \/ MenuWrap \/ MenuUnwrap \/ MenuBadNumber \/ MenuCheck \/ MenuExit
  \/ MenuInvalid \/ PressEnter
  \/ RpcTransportError \/ RpcErrorResponse
  \/ WrapGetBalance \/ WrapResolve \/ WrapGetSpl \/ WrapRent \/ WrapBlockhash
  \/ WrapSend \/ WrapNewBalance \/ WrapNewSpl
  \/ UnwrapGetBalance \/ UnwrapGetSpl \/ UnwrapBlockhash \/ UnwrapResolve
  \/ UnwrapRent \/ UnwrapSend \/ UnwrapNewBalance \/ UnwrapNewSpl
  \/ CheckGetBalance \/ CheckGetSpl

\* The program and the ledger, the owner's accounts touched by nobody else.
Spec == Init /\ [][Next]_vars

NextRace == Next \/ OtherActor

\* The program and the ledger, with other actors changing the ledger.
SpecRace == Init /\ [][NextRace]_vars

\* Another actor changes the ledger after unwrap_fogo has read the summed
\* wrapped balance and before it has read the answer to its source query.
OtherActorBetweenQueries ==
  /\ pc \in {"u_blockhash", "u_resolve"}
  /\ OtherActor

NextUnwrapRace == Next \/ OtherActorBetweenQueries

\* The program and the ledger, with other actors changing the ledger
\* between the two token-account queries of an unwrap call.
SpecUnwrapRace == Init /\ [][NextUnwrapRace]_vars

\* ------------------------------------------------------------------ claims
Requested(method) == \E i \in 1..Len(rpcLog) : rpcLog[i] = method

\* The sum of a list of balances, counted unit by unit.
TotalOf(s) ==
  Cardinality({<<i, u>> \in (1..Len(s)) \X (1..(MaxTok + MaxKeys * MaxEntered)) :
                 u <= s[i]})

NoneFunded(s) == \A i \in 1..Len(s) : s[i] = 0

Built == loc.tx.instructions # <<>>

TypesOf(ixs) == [i \in 1..Len(ixs) |-> ixs[i].type]

FourInOrder ==
  <<"CreateAccount", "InitializeAccount", "TransferChecked", "CloseAccount">>

\* C1: every transaction wrap_fogo builds (the amount typed is positive, the
\* amount does not exceed the native-balance snapshot, a destination account
\* was found) holds exactly the four instructions CreateAccount,
\* InitializeAccount, TransferChecked, CloseAccount in this order, with
\* CreateAccount.lamports = rent minimum + amount, the transfer going from the
\* ephemeral account to the resolved destination for the amount, and the
\* close paying the owner.
WrapTransactionShape ==
  (choice = "1" /\ Built) =>
    LET ixs == loc.tx.instructions
    IN  /\ entered > 0
        /\ loc.amount <= loc.fogo_balance
        /\ loc.spl_fogo_account # None
        /\ TypesOf(ixs) = FourInOrder
        /\ ixs[1].new_account_pubkey = loc.temp_account_pub
        /\ ixs[1].lamports = loc.rent_lamports + loc.amount
        /\ ixs[3].source = loc.temp_account_pub
        /\ ixs[3].dest = Tok(loc.spl_fogo_account)
        /\ ixs[3].amount = loc.amount
        /\ ixs[4].dest = Owner

WrapTransactionBuilt ==
  /\ choice = "1"
  /\ pc = "w_send"
  /\ loc.amount = 2
  /\ Len(loc.tx.instructions) = 4

\* C2: every transaction unwrap_fogo builds holds exactly the four
\* instructions in the same order, with CreateAccount.lamports = rent minimum
\* alone, the transfer going from the resolved source account to the
\* ephemeral account for the amount, and the close closing the ephemeral
\* account and paying the owner.
UnwrapTransactionShape ==
  (choice = "2" /\ Built) =>
    LET ixs == loc.tx.instructions
    IN  /\ TypesOf(ixs) = FourInOrder
        /\ ixs[1].new_account_pubkey = loc.temp_account_pub
        /\ ixs[1].lamports = loc.rent_lamports
        /\ loc.rent_lamports = RentMin
        /\ loc.source_ata # None
        /\ ixs[3].source = Tok(loc.source_ata)
        /\ ixs[3].dest = loc.temp_account_pub
        /\ ixs[3].amount = loc.amount
        /\ ixs[4].account = loc.temp_account_pub
        /\ ixs[4].dest = Owner

UnwrapTransactionBuilt ==
  /\ choice = "2"
  /\ pc = "u_send"
  /\ loc.amount = 2
  /\ Len(loc.tx.instructions) = 4

\* C3: in both directions, once the amount exceeds the balance snapshot
\* (native balance for wrap, summed wrapped balance for unwrap) the call has
\* ended with the insufficient-funds outcome, no transaction is built and no
\* sendTransaction was requested.
InsufficientFundsStops ==
  LET snapshot == IF choice = "1" THEN loc.fogo_balance
                  ELSE loc.spl_fogo_balance
  IN  (/\ choice \in {"1", "2"}
       /\ loc.amount # None
       /\ snapshot # None
       /\ loc.amount > snapshot)
      => /\ pc = "pause"
         /\ loc.outcome = "insufficient"
         /\ ~Built
         /\ ~Requested("sendTransaction")

InsufficientFundsSeen ==
  /\ choice = "2"
  /\ pc = "pause"
  /\ loc.outcome = "insufficient"
  /\ loc.spl_fogo_balance = 1
  /\ loc.amount = 2

\* C4: a wrap or unwrap choice with an amount <= 0 requests no RPC method
\* and the loop is back at the menu prompt.
NonPositiveAmountRejected ==
  (choice \in {"1", "2"} /\ entered <= 0) =>
    /\ pc = "menu"
    /\ rpcLog = <<>>
    /\ loc.outcome = "invalid_input"
    /\ ~Built

NonPositiveAmountSeen ==
  /\ choice = "2"
  /\ entered = 0
  /\ pc = "menu"
  /\ loc.outcome = "invalid_input"

\* An unwrap call has returned, and no token account held a positive balance
\* while it ran (none holds one now and no transaction of the call was
\* executed).
UnwrapReturnedNoneFunded ==
  choice = "2" /\ pc = "pause" /\ ~landed /\ NoneFunded(toks)

\* C5 as stated: an unwrap call made while no token account holds a positive
\* balance ends with the missing-account outcome and builds no transaction.
UnwrapNoFundedIsMissingAccount ==
  UnwrapReturnedNoneFunded =>
    /\ loc.outcome = "missing_account"
    /\ ~Built

\* C5 amended: an unwrap call made while no token account holds a positive
\* balance builds no transaction and requests no sendTransaction; its
\* outcome is insufficient funds when the amount is at least one smallest
\* unit, and missing account when the amount typed truncates to 0 smallest
\* units.
UnwrapNoFundedBuildsNothing ==
  UnwrapReturnedNoneFunded =>
    /\ ~Built
    /\ ~Requested("sendTransaction")
    /\ loc.amount >= 1 => loc.outcome = "insufficient"
    /\ loc.amount = 0 => loc.outcome = "missing_account"

UnwrapNoFundedSeen ==
  /\ UnwrapReturnedNoneFunded
  /\ Len(toks) = 2
  /\ loc.amount = 0
  /\ loc.outcome = "missing_account"

\* C6: with no other actor touching the ledger, once a wrap of amount A was
\* executed and then an unwrap of the same amount A was executed, the summed
\* wrapped balance is what it was before the wrap and the native balance is
\* lower than before the wrap by the fees of the two transactions alone
\* (both rent deposits came back).
RoundTripRestores ==
  rt.stage = 2 =>
    /\ SumSeq(toks) = rt.spl0
    /\ nativeBal = rt.nat0 - 2 * Fee

RoundTripDone ==
  /\ rt.stage = 2
  /\ rt.A = 1
  /\ rt.spl0 = 1
  /\ choice = "2"
  /\ pc = "u_newBalance"

\* C7: the step in which the ledger executes a wrap transaction of amount A
\* raises the summed wrapped balance by exactly A, lowers the native balance
\* by exactly A plus the fee (the rent deposit comes back), and the whole
\* increase is in the resolved destination account.
WrapExecutionEffect ==
  [][(pc = "w_send" /\ landed') =>
       /\ SumSeq(toks') = SumSeq(toks) + loc.amount
       /\ nativeBal' = nativeBal - loc.amount - Fee
       /\ Len(toks') = Len(toks)
       /\ \A i \in 1..Len(toks) :
            toks'[i] = IF i = loc.spl_fogo_account
                       THEN toks[i] + loc.amount ELSE toks[i]]_vars

WrapExecuted ==
  /\ choice = "1"
  /\ pc = "w_newBalance"
  /\ landed
  /\ loc.amount = 2
  /\ Len(toks) = 2

\* C8: get_spl_fogo_balance returns the exact sum of the balances of all the
\* accounts in the response: 0 for an empty list, the sum of all entries
\* for several.
WrappedBalanceIsSum ==
  /\ (loc.new_spl_fogo_balance # None) =>
       loc.new_spl_fogo_balance = TotalOf(loc.accounts)
  /\ (loc.new_spl_fogo_balance = None /\ loc.spl_fogo_balance # None) =>
       loc.spl_fogo_balance = TotalOf(loc.accounts)
  /\ (loc.new_spl_fogo_balance = None /\ loc.spl_fogo_balance # None
      /\ loc.accounts = <<>>) =>
       loc.spl_fogo_balance = 0

WrappedBalanceOfSeveral ==
  /\ loc.new_spl_fogo_balance = None
  /\ loc.accounts = <<1, 1>>
  /\ loc.spl_fogo_balance = 2

\* C9: the transaction a call builds creates an ephemeral account whose
\* address is the address of no transaction built before.
EphemeralAddressFresh ==
  [][(~Built /\ Built') =>
       /\ loc'.tx.instructions[1].new_account_pubkey \notin usedKeys
       /\ usedKeys' = usedKeys \cup {loc'.tx.instructions[1].new_account_pubkey}]_vars

TwoTransactionsBuilt ==
  /\ Cardinality(usedKeys) = 2
  /\ Built
  /\ pc \in {"w_send", "u_send"}

\* C10: in every transaction built the account created is the account
\* initialized and the account closed, and in no ledger state does an
\* ephemeral account exist (every submitted transaction was executed as a
\* whole or not at all).
EphemeralNeverDangling ==
  /\ Built =>
       LET ixs == loc.tx.instructions
       IN  /\ TypesOf(ixs) = FourInOrder
           /\ ixs[1].new_account_pubkey = ixs[2].account
           /\ ixs[1].new_account_pubkey = ixs[4].account
           /\ ixs[1].new_account_pubkey.k = "tmp"
  /\ DOMAIN temps = {}

EphemeralClosedAfterExecution ==
  /\ landed
  /\ pc \in {"w_newBalance", "u_newBalance"}
  /\ loc.amount >= 1
  /\ keygen = 2
  /\ DOMAIN temps = {}

\* C11: in every transaction unwrap_fogo builds, the TransferChecked amount
\* does not exceed the balance of the chosen source account as the source
\* query listed it, also when the owner holds several accounts.
UnwrapAmountWithinSource ==
  (choice = "2" /\ Built) =>
    /\ loc.source_ata \in 1..Len(loc.token_accounts)
    /\ loc.tx.instructions[3].source = Tok(loc.source_ata)
    /\ loc.tx.instructions[3].amount <= loc.token_accounts[loc.source_ata]

\* An unwrap transaction was built from a source account that the source
\* query listed with a balance below the amount.
UnwrapAmountAboveSource ==
  /\ choice = "2"
  /\ pc = "u_send"
  /\ Len(loc.token_accounts) = 2
  /\ loc.spl_fogo_balance >= loc.amount
  /\ loc.tx.instructions[3].amount > loc.token_accounts[loc.source_ata]

\* C12: when wrap_fogo has read the answer to its destination query, the
\* destination is the first account of the answer; when the answer holds no
\* account the call ends with the missing-account outcome, with no
\* transaction built, no sendTransaction requested and the ledger left as it
\* was (no account created).  The transaction built later pays into that
\* first account.
WrapDestinationIsFirst ==
  /\ [][(pc = "w_resolve" /\ pc' \notin {"w_resolve", "exited"}) =>
          IF loc'.token_accounts = <<>>
          THEN /\ pc' = "pause"
               /\ loc'.outcome = "missing_account"
               /\ loc'.spl_fogo_account = None
               /\ ~Built'
               /\ ~Requested("sendTransaction")'
               /\ UNCHANGED <<nativeBal, toks, temps>>
          ELSE /\ pc' = "w_getSpl"
               /\ loc'.spl_fogo_account = 1]_vars
  /\ []((choice = "1" /\ Built) =>
          /\ loc.token_accounts # <<>>
          /\ loc.tx.instructions[3].dest = Tok(1))

WrapWithoutDestination ==
  /\ choice = "1"
  /\ pc = "pause"
  /\ loc.outcome = "missing_account"
  /\ loc.amount = 2
  /\ loc.token_accounts = <<>>
  /\ toks = <<>>
  /\ rpcLog = <<"getBalance", "getTokenAccountsByOwner">>

\* The node answered a request of the running call with a response that
\* carries an error and no result (for the methods read as resp["result"]
\* the call has ended with the KeyError).
GotErrorResponse ==
  loc.resp = "error" \/ loc.outcome = "key_error"

\* C13: whatever the method, once the node has answered with an error
\* response the call has ended reporting the failure with the error payload
\* of the response; it has not gone on with a wrapped balance of 0 and has
\* not ended with the insufficient-funds or the missing-account outcome.
ErrorResponseIsReported ==
  GotErrorResponse =>
    /\ pc = "pause"
    /\ loc.outcome = "tx_failed"
    /\ loc.resp = "error"

\* The wrapped-balance query of an unwrap call was answered with an error
\* while the owner holds a funded account, and the call ended with the
\* insufficient-funds outcome.
ErrorResponseBecameInsufficient ==
  /\ choice = "2"
  /\ pc = "pause"
  /\ loc.resp = "error"
  /\ toks = <<1>>
  /\ loc.spl_fogo_balance = 0
  /\ loc.amount = 1
  /\ loc.outcome = "insufficient"

SendCount ==
  Cardinality({i \in 1..Len(rpcLog) : rpcLog[i] = "sendTransaction"})

\* C14: within one wrap or unwrap call sendTransaction is requested at most
\* once; when its response carries no result the call reports the failure
\* and returns, sendTransaction being the last request it made (no
\* resubmission, no balance re-query), and from the pause that follows the
\* program only goes back to the menu.
NoAutomaticRetry ==
  /\ [](SendCount <= 1)
  /\ []((choice \in {"1", "2"} /\ loc.outcome = "tx_failed") =>
          /\ pc = "pause"
          /\ SendCount = 1
          /\ rpcLog[Len(rpcLog)] = "sendTransaction"
          /\ loc.new_fogo_balance = None
          /\ loc.new_spl_fogo_balance = None)
  /\ [][(pc \in {"w_send", "u_send"} /\ pc' \notin {pc, "exited"}
          /\ loc'.resp # "result") =>
           /\ pc' = "pause"
           /\ loc'.outcome = "tx_failed"
           /\ rpcLog' = Append(rpcLog, "sendTransaction")
           /\ UNCHANGED <<nativeBal, toks, temps>>]_vars
  /\ [][(pc = "pause") => (pc' = "menu" /\ rpcLog' = <<>>)]_vars

SendRefusedOnce ==
  /\ choice = "1"
  /\ pc = "pause"
  /\ loc.outcome = "tx_failed"
  /\ loc.resp = "error"
  /\ loc.amount = 2
  /\ rpcLog = <<"getBalance", "getTokenAccountsByOwner",
               "getTokenAccountsByOwner", "getMinimumBalanceForRentExemption",
               "getLatestBlockhash", "sendTransaction">>

\* The transaction of the running call carries signatures.
Signed == loc.tx.signers # {}

\* C15: a transaction that carries signatures has its block reference set
\* and the owner as fee payer, and is signed by exactly two signers: the
\* owner and the ephemeral account its own CreateAccount creates; every
\* transaction handed to sendTransaction is signed in this way.
TwoSignersBeforeSubmission ==
  /\ [](Signed =>
          /\ Built
          /\ loc.tx.recent_blockhash = loc.blockhash
          /\ loc.blockhash # "none"
          /\ loc.tx.fee_payer = Owner
          /\ loc.tx.signers =
               {Owner, loc.tx.instructions[1].new_account_pubkey}
          /\ loc.tx.instructions[1].new_account_pubkey = loc.temp_account_pub
          /\ Cardinality(loc.tx.signers) = 2)
  /\ [](Requested("sendTransaction") => Signed)
  /\ [][(SendCount' > SendCount) => (Signed /\ loc'.tx = loc.tx)]_vars

SignedTransactionExecuted ==
  /\ choice = "2"
  /\ pc = "u_newBalance"
  /\ landed
  /\ loc.amount = 1
  /\ loc.tx.signers = {Owner, Tmp(2)}
  /\ loc.tx.fee_payer = Owner

\* C16: the source unwrap_fogo resolves is an account of the answer with a
\* balance above 0, every account listed before it has balance 0 (skipped),
\* and it is the source of the transfer in the transaction built.
UnwrapSourceIsFirstFunded ==
  (choice = "2" /\ loc.source_ata # None) =>
    /\ loc.source_ata \in 1..Len(loc.token_accounts)
    /\ loc.token_accounts[loc.source_ata] > 0
    /\ \A j \in 1..(loc.source_ata - 1) : loc.token_accounts[j] = 0
    /\ Built => loc.tx.instructions[3].source = Tok(loc.source_ata)

UnwrapSkippedEmptyAccount ==
  /\ choice = "2"
  /\ pc = "u_send"
  /\ loc.token_accounts = <<0, 1>>
  /\ loc.source_ata = 2
  /\ loc.tx.instructions[3].source = Tok(2)

\* The requests of a whole wrap_fogo call and of a whole unwrap_fogo call,
\* in the order the claim gives.
WrapPipeline ==
  <<"getBalance", "getTokenAccountsByOwner", "getTokenAccountsByOwner",
    "getMinimumBalanceForRentExemption", "getLatestBlockhash",
    "sendTransaction", "getBalance", "getTokenAccountsByOwner">>

UnwrapPipeline ==
  <<"getBalance", "getTokenAccountsByOwner", "getLatestBlockhash",
    "getTokenAccountsByOwner", "getMinimumBalanceForRentExemption",
    "sendTransaction", "getBalance", "getTokenAccountsByOwner">>

IsPrefix(s, t) ==
  Len(s) <= Len(t) /\ \A i \in 1..Len(s) : s[i] = t[i]

\* C17: the requests of a wrap or unwrap call are a prefix of the pipeline;
\* when sendTransaction has been requested the amount was within the
\* snapshot, an account is resolved, the rent minimum and a block reference
\* were fetched in this call; the balances are queried again only after
\* sendTransaction answered with a result; the snapshots of the start are
\* not overwritten, and the changes reported are the re-queried values
\* minus those snapshots.
PipelineOrder ==
  /\ [](choice = "1" => IsPrefix(rpcLog, WrapPipeline))
  /\ [](choice = "2" => IsPrefix(rpcLog, UnwrapPipeline))
  /\ []((choice \in {"1", "2"} /\ Requested("sendTransaction")) =>
          /\ loc.amount # None
          /\ IF choice = "1"
             THEN loc.amount <= loc.fogo_balance /\ loc.spl_fogo_account # None
             ELSE loc.amount <= loc.spl_fogo_balance /\ loc.source_ata # None
          /\ loc.rent_lamports # None
          /\ loc.blockhash # "none"
          /\ Requested("getMinimumBalanceForRentExemption")
          /\ Requested("getLatestBlockhash"))
  /\ [][(pc' \in {"w_newBalance", "u_newBalance"} /\ pc' # pc) =>
           /\ pc \in {"w_send", "u_send"}
           /\ rpcLog' = Append(rpcLog, "sendTransaction")
           /\ loc'.resp = "result"]_vars
  /\ []((loc.new_fogo_balance # None \/ loc.new_spl_fogo_balance # None) =>
          Len(rpcLog) > 6)
  /\ [][(loc.fogo_balance # None /\ pc' \in RpcPcs \cup {"pause"}) =>
           loc'.fogo_balance = loc.fogo_balance]_vars
  /\ [][(loc.spl_fogo_balance # None /\ pc' \in RpcPcs \cup {"pause"}) =>
           loc'.spl_fogo_balance = loc.spl_fogo_balance]_vars
  /\ []((choice \in {"1", "2"} /\ loc.outcome = "success") =>
          /\ loc.fogo_change = loc.new_fogo_balance - loc.fogo_balance
          /\ loc.spl_fogo_change =
               loc.new_spl_fogo_balance - loc.spl_fogo_balance)

WrapPipelineCompleted ==
  /\ choice = "1"
  /\ pc = "pause"
  /\ loc.outcome = "success"
  /\ rpcLog = WrapPipeline
  /\ loc.amount = 2
  /\ loc.fogo_change = 0 - 3
  /\ loc.spl_fogo_change = 2

\* C18: every transaction wrap_fogo or unwrap_fogo builds transfers at least
\* 1 smallest unit, and a call whose typed amount is positive but below one
\* smallest unit builds no transaction and requests no sendTransaction.
TransferAmountAtLeastOne ==
  /\ (choice \in {"1", "2"} /\ Built) =>
       loc.tx.instructions[3].amount >= 1
  /\ (choice \in {"1", "2"} /\ entered > 0 /\ entered < Sub) =>
       /\ ~Built
       /\ ~Requested("sendTransaction")

\* A wrap of a positive amount below one smallest unit was built with a
\* transfer of 0, submitted and executed.
ZeroAmountSubmitted ==
  /\ choice = "1"
  /\ entered = 1
  /\ loc.amount = 0
  /\ pc = "w_newBalance"
  /\ landed
  /\ loc.tx.instructions[3].amount = 0

\* C19: in every transaction wrap_fogo builds, the lamports CreateAccount
\* takes from the owner (rent minimum + amount) do not exceed the
\* native-balance snapshot of the call.
WrapFundingWithinSnapshot ==
  (choice = "1" /\ Built) =>
    /\ loc.tx.instructions[1].lamports = loc.rent_lamports + loc.amount
    /\ loc.tx.instructions[1].lamports <= loc.fogo_balance

\* A wrap of the whole native balance passed the check, was built with a
\* funding above the snapshot, and is about to be submitted to a ledger that
\* cannot execute it.
WrapFundingAboveSnapshot ==
  /\ choice = "1"
  /\ pc = "w_send"
  /\ loc.amount = 2
  /\ loc.fogo_balance = 2
  /\ nativeBal = 2
  /\ loc.tx.instructions[1].lamports = 3
  /\ ~Execute(loc.tx).ok

SomeFunded(s) == \E i \in 1..Len(s) : s[i] > 0

\* C20: with other actors changing the ledger at any moment, unwrap_fogo
\* reads the summed balance and the source account in two separate
\* getTokenAccountsByOwner queries (the 2nd and the 4th request of the
\* call); whatever changed in between, the call goes on to build a
\* transaction only when the second answer lists an account with a
\* positive balance, and otherwise ends with the missing-account outcome,
\* with no transaction built and no sendTransaction requested.
UnwrapSourceSnapshotDecides ==
  /\ [][(pc = "u_resolve" /\ pc' \notin {"u_resolve", "exited"}) =>
          /\ rpcLog = <<"getBalance", "getTokenAccountsByOwner",
                        "getLatestBlockhash">>
          /\ rpcLog' = Append(rpcLog, "getTokenAccountsByOwner")
          /\ loc.spl_fogo_balance >= loc.amount
          /\ IF SomeFunded(loc'.token_accounts)
             THEN /\ pc' = "u_rent"
                  /\ loc'.source_ata \in 1..Len(loc'.token_accounts)
                  /\ loc'.token_accounts[loc'.source_ata] > 0
             ELSE /\ pc' = "pause"
                  /\ loc'.outcome = "missing_account"
                  /\ loc'.source_ata = None
                  /\ ~Built'
                  /\ ~Requested("sendTransaction")']_vars
  /\ []((choice = "2" /\ (Built \/ Requested("sendTransaction"))) =>
          SomeFunded(loc.token_accounts))

\* The summed balance covered the amount, another actor then emptied the
\* account, and the source query, answered with a result, listed no funded
\* account.
UnwrapSourceEmptiedBetweenQueries ==
  /\ choice = "2"
  /\ pc = "pause"
  /\ others = 1
  /\ loc.accounts = <<1>>
  /\ loc.spl_fogo_balance = 1
  /\ loc.amount = 1
  /\ loc.resp = "result"
  /\ loc.token_accounts = <<0>>
  /\ loc.outcome = "missing_account"
  /\ ~Requested("sendTransaction")

====
